---- MODULE Spec2Model ----
(***************************************************************************)
(* Model of the pvc dialog controllers ClusterHostWidget                   *)
(* (pvc/widget/cluster.py) and VncWidget (pvc/widget/vnc.py).              *)
(*                                                                         *)
(* One controller owns the terminal at a time: `active` names the widget   *)
(* the user opened.  Every handler is a chain of steps driven by a program *)
(* counter (cpc for the cluster widget, vpc for the VNC widget); a step    *)
(* ends where the code blocks on the user (a dialog), on the remote side   *)
(* (a task gauge), on a socket probe or on a subprocess.                   *)
(*                                                                         *)
(* Python strings are sequences of one-character strings, so that          *)
(* str(), lower() and int() are computed, not assumed.                     *)
(***************************************************************************)
EXTENDS Integers, Sequences, FiniteSets, TLC

VARIABLES
    active,          \* "ClusterHostWidget" or "VncWidget"
    \* ---- remote state of the cluster
    hosts,           \* self.obj.host: sequence of [name, state]
    \* ---- ClusterHostWidget
    cpc,             \* position of the controller
    cop,             \* handler running, or the last one that ran
    items,           \* checklist items built by the handler: [tag, description]
    selected_hosts,  \* checklist.selected()
    ccode,           \* code returned by the form / yesno dialog
    cfields,         \* fields returned by the connect form
    host_objects,    \* names of the host objects the batch loop walks
    idx,             \* loop index into host_objects (1-based)
    tasks,           \* remote operations submitted by the handler, in order
    cshown,          \* dialogs shown by the handler
    \* ---- remote state of the virtual machine
    objType,         \* type of the object handed to VncWidget
    powerState,      \* self.obj.runtime.powerState
    extraConfig,     \* self.obj.config.extraConfig: sequence of [key, value]
    openPorts,       \* ports accepting connections on the VM's host
    \* ---- VncWidget
    vpc,             \* position of the controller
    vop,             \* handler running, or the last one that ran
    prevOp,          \* summary of the handler that ran before vop
    trail,           \* enable_vnc [-> disable_vnc] just run: how far, and the
                     \* extraConfig the enable_vnc left
    cfgAtStart,      \* extraConfig when vop started
    lport,           \* local `port`
    lpassword,       \* local `password`
    lenabled,        \* local `enabled`
    lpower,          \* power state read by launch_console
    probes,          \* socket probes made by the handler
    portWasOpen,     \* result of launch_console's probe: "none", "open", "closed"
    vcode,           \* code returned by the settings form
    vfields,         \* fields returned by the settings form
    vtasks,          \* Reconfigure tasks submitted by the handler: [spec, state]
    vshown,          \* dialogs shown by the handler
    fileCreated,     \* mkstemp succeeded in this handler
    fileExists,      \* the pvcvnc_ file made by this handler is on disk
    leaked,          \* a pvcvnc_ file of an earlier handler is still on disk
    procs,           \* subprocesses started by the handler, in order
    raised           \* exception escaping the handler, "none" if none

clusterVars == <<hosts, cpc, cop, items, selected_hosts, ccode, cfields,
                 host_objects, idx, tasks, cshown>>
vncVars == <<objType, powerState, extraConfig, openPorts, vpc, vop, prevOp, trail,
             cfgAtStart, lport, lpassword, lenabled, lpower, probes,
             portWasOpen, vcode, vfields, vtasks, vshown, fileCreated,
             fileExists, leaked, procs, raised>>
vars == <<active, clusterVars, vncVars>>

----------------------------------------------------------------------------
(* Bounds of the model *)

\* largest number of hosts in the cluster
MaxHosts == 2

----------------------------------------------------------------------------
(* Python values and strings *)

S(str) ==
    CASE str = "" -> <<>>
      [] str = "true" -> <<"t", "r", "u", "e">>
      [] str = "True" -> <<"T", "r", "u", "e">>
      [] str = "TRUE" -> <<"T", "R", "U", "E">>
      [] str = "false" -> <<"f", "a", "l", "s", "e">>
      [] str = "False" -> <<"F", "a", "l", "s", "e">>
      [] str = "None" -> <<"N", "o", "n", "e">>
      [] str = "abc" -> <<"a", "b", "c">>
      [] str = "pw" -> <<"p", "w">>
      [] str = "k3Yp4sSw" -> <<"k", "3", "Y", "p", "4", "s", "S", "w">>
      [] str = "Zx81qLm0" -> <<"Z", "x", "8", "1", "q", "L", "m", "0">>

PyNone == [t |-> "NoneType", s |-> <<>>, n |-> 0]
PyStr(s) == [t |-> "str", s |-> s, n |-> 0]
PyInt(n) == [t |-> "int", s |-> <<>>, n |-> n]
PyBool(b) == [t |-> "bool", s |-> <<>>, n |-> IF b THEN 1 ELSE 0]

\* truth value of a Python object, as `if x`, `not x` and all() test it
Truthy(x) ==
    CASE x.t = "NoneType" -> FALSE
      [] x.t = "str" -> x.s # <<>>
      [] x.t = "int" -> x.n # 0
      [] x.t = "bool" -> x.n = 1

DigitChars == <<"0", "1", "2", "3", "4", "5", "6", "7", "8", "9">>
UpperChars == <<"A", "B", "C", "D", "E", "F", "G", "H", "I", "J", "K", "L", "M",
                "N", "O", "P", "Q", "R", "S", "T", "U", "V", "W", "X", "Y", "Z">>
LowerChars == <<"a", "b", "c", "d", "e", "f", "g", "h", "i", "j", "k", "l", "m",
                "n", "o", "p", "q", "r", "s", "t", "u", "v", "w", "x", "y", "z">>

RECURSIVE IntToStr(_)
IntToStr(n) ==
    IF n < 10 THEN <<DigitChars[n + 1]>>
    ELSE IntToStr(n \div 10) \o <<DigitChars[(n % 10) + 1]>>

\* str(x)
Str(x) ==
    CASE x.t = "NoneType" -> S("None")
      [] x.t = "str" -> x.s
      [] x.t = "int" -> IntToStr(x.n)
      [] x.t = "bool" -> IF x.n = 1 THEN S("True") ELSE S("False")

LowerChar(c) ==
    IF \E i \in 1..26 : UpperChars[i] = c
    THEN LowerChars[CHOOSE i \in 1..26 : UpperChars[i] = c]
    ELSE c

\* s.lower()
Lower(s) == [i \in 1..Len(s) |-> LowerChar(s[i])]

IsDigit(c) == \E i \in 1..10 : DigitChars[i] = c
DigitVal(c) == (CHOOSE i \in 1..10 : DigitChars[i] = c) - 1

RECURSIVE DigitsVal(_)
DigitsVal(s) ==
    IF s = <<>> THEN 0
    ELSE 10 * DigitsVal(SubSeq(s, 1, Len(s) - 1)) + DigitVal(s[Len(s)])

\* int(x) for the values the extra-config can hold: "TypeError" for None,
\* "ValueError" for a string that is not a run of decimal digits, else "ok"
IntStatus(x) ==
    CASE x.t = "NoneType" -> "TypeError"
      [] x.t = "str" ->
            IF x.s # <<>> /\ \A i \in 1..Len(x.s) : IsDigit(x.s[i])
            THEN "ok" ELSE "ValueError"
      [] OTHER -> "ok"
IntValue(x) == IF x.t = "str" THEN DigitsVal(x.s) ELSE x.n

\* all(fields.values())
AllNonEmpty(fields) == \A k \in DOMAIN fields : Truthy(fields[k])

\* the subsequences of a sequence, order kept
RECURSIVE SubSeqs(_)
SubSeqs(s) ==
    IF s = <<>> THEN {<<>>}
    ELSE LET rest == SubSeqs(Tail(s))
         IN rest \cup {<<Head(s)>> \o r : r \in rest}

Range(s) == {s[i] : i \in 1..Len(s)}

----------------------------------------------------------------------------
(* Dialog toolkit and remote API vocabulary *)

DialogCodes == {"ok", "cancel", "esc"}
ConnectionStates == {"connected", "disconnected", "notResponding"}
TerminalStates == {"success", "error"}
\* host names are one-letter strings, as many as the cluster can hold
NameChars == <<"a", "b", "c", "d", "e", "f", "g", "h">>
HostName(i) == <<NameChars[i]>>
HostNames == {HostName(i) : i \in 1..MaxHosts}
FieldValues == {S(""), S("abc")}

RemoveAt(s, i) == SubSeq(s, 1, i - 1) \o SubSeq(s, i + 1, Len(s))

\* a task handle returned by a remote mutating operation
NewTask(op, target) == [op |-> op, target |-> target, state |-> "running"]

Unresolved(ts) == {i \in 1..Len(ts) : ts[i].state \notin TerminalStates}

----------------------------------------------------------------------------
(* ClusterHostWidget *)

\* a handler is entered from the widget's menu with its locals fresh
EnterCluster(op) ==
    /\ active = "ClusterHostWidget"
    /\ cpc = "menu"
    /\ cop' = op

\* slip: the comprehension has lost its `if` filter
ItemsInState_NoFilter(hs, state) ==
    [i \in 1..Len(hs) |-> [tag |-> hs[i].name, description |-> hs[i].state]]

\* [CheckListItem(h.name, h.runtime.connectionState) for h in self.obj.host
\*      if h.runtime.connectionState == state]
ItemsInState(hs, state) ==
    LET keep == {i \in 1..Len(hs) : hs[i].state = state}
        F[i \in 0..Len(hs)] ==
            IF i = 0 THEN <<>>
            ELSE IF i \in keep
                 THEN Append(F[i - 1],
                             [tag |-> hs[i].name, description |-> hs[i].state])
                 ELSE F[i - 1]
    IN F[Len(hs)]

Tags(its) == [i \in 1..Len(its) |-> its[i].tag]

\* [h for sh in selected_hosts for h in self.obj.host if sh == h.name]
RECURSIVE Matching(_, _)
Matching(sh, hs) ==
    IF hs = <<>> THEN <<>>
    ELSE (IF sh = Head(hs).name THEN <<Head(hs).name>> ELSE <<>>)
         \o Matching(sh, Tail(hs))

RECURSIVE HostObjects(_, _)
HostObjects(sel, hs) ==
    IF sel = <<>> THEN <<>>
    ELSE Matching(Head(sel), hs) \o HostObjects(Tail(sel), hs)


\* self.dialog.infobox('Retrieving information ...'), then the checklist of
\* the hosts that are connected
DisconnectBegin ==
    /\ EnterCluster("disconnect_host")
    /\ items' = ItemsInState(hosts, "connected")
    /\ cshown' = {"infobox", "checklist"}
    /\ cpc' = "dc_checklist"
    /\ UNCHANGED <<active, hosts, selected_hosts, ccode, cfields,
                   host_objects, idx, tasks, vncVars>>

\* checklist.display(); selected_hosts = checklist.selected()
\* if not selected_hosts: return; else the yes/no confirmation is shown
DisconnectSelect ==
    /\ cpc = "dc_checklist"
    /\ \E sel \in SubSeqs(Tags(items)) :
        /\ selected_hosts' = sel
        /\ IF sel = <<>>
           THEN cpc' = "done" /\ cshown' = cshown
           ELSE cpc' = "dc_confirm" /\ cshown' = cshown \cup {"yesno"}
    /\ UNCHANGED <<active, hosts, cop, items, ccode, cfields, host_objects,
                   idx, tasks, vncVars>>

\* slip: CANCEL (the "No" button) is not treated as an abort
ConfirmAborts_EscOnly(code) == code = "esc"
ConfirmAborts(code) == code \in {"esc", "cancel"}

\* code = self.dialog.yesno(...); if code in (ESC, CANCEL): return
\* host_objects = [h for sh in selected_hosts for h in self.obj.host ...]
DisconnectConfirm ==
    /\ cpc = "dc_confirm"
    /\ \E code \in DialogCodes :
        /\ ccode' = code
        /\ IF ConfirmAborts(code)
           THEN cpc' = "done" /\ UNCHANGED <<host_objects, idx>>
           ELSE /\ host_objects' = HostObjects(selected_hosts, hosts)
                /\ idx' = 1
                /\ cpc' = "dc_loop"
    /\ UNCHANGED <<active, hosts, cop, items, selected_hosts, cfields, tasks,
                   cshown, vncVars>>

\* slip: the loop submits the next operation without gauge.display()
AfterSubmit_NoGauge(loop, gauge) == loop
\* the position the batch loop moves to once a task is submitted: the gauge
AfterSubmit(loop, gauge) == gauge

\* one turn of `for host_obj in host_objects:`: the loop ends, or the remote
\* call is made on the next host object. A host object that left the
\* inventory raises vmodl.fault.ManagedObjectNotFound, which nothing catches.
BatchTurn(loop, gauge, op) ==
    /\ cpc = loop
    /\ IF idx > Len(host_objects)
       THEN cpc' = "done" /\ UNCHANGED <<idx, tasks, cshown>>
       ELSE IF \E i \in 1..Len(hosts) : hosts[i].name = host_objects[idx]
            THEN /\ tasks' = Append(tasks, NewTask(op, host_objects[idx]))
                 /\ cshown' = cshown \cup {"gauge"}
                 /\ idx' = idx + 1
                 /\ cpc' = AfterSubmit(loop, gauge)
            ELSE cpc' = "crashed" /\ UNCHANGED <<idx, tasks, cshown>>
    /\ UNCHANGED <<active, hosts, cop, items, selected_hosts, ccode, cfields,
                   host_objects, vncVars>>

\* what a finished task leaves on the remote side
ApplyHostTask(hs, task, result) ==
    IF result # "success" THEN hs
    ELSE CASE task.op = "Disconnect" ->
                [i \in 1..Len(hs) |->
                    IF hs[i].name = task.target
                    THEN [hs[i] EXCEPT !.state = "disconnected"] ELSE hs[i]]
           [] task.op = "Reconnect" ->
                [i \in 1..Len(hs) |->
                    IF hs[i].name = task.target
                    THEN [hs[i] EXCEPT !.state = "connected"] ELSE hs[i]]
           [] task.op = "AddHost" ->
                IF Len(hs) < MaxHosts
                   /\ \A i \in 1..Len(hs) : hs[i].name # task.target
                THEN Append(hs, [name |-> task.target, state |-> "connected"])
                ELSE hs

\* TaskGauge.display(): polls the task until it is in a terminal state, and
\* reports a failed task in a message box
GaugeDisplay(gauge, next) ==
    /\ cpc = gauge
    /\ \E result \in TerminalStates :
        /\ tasks' = [tasks EXCEPT ![Len(tasks)].state = result]
        /\ hosts' = ApplyHostTask(hosts, tasks[Len(tasks)], result)
        /\ cshown' = IF result = "error" THEN cshown \cup {"msgbox:task"}
                     ELSE cshown
    /\ cpc' = next
    /\ UNCHANGED <<active, cop, items, selected_hosts, ccode, cfields,
                   host_objects, idx, vncVars>>

\* for host_obj in host_objects: task = host_obj.Disconnect()
DisconnectLoop == BatchTurn("dc_loop", "dc_gauge", "Disconnect")

\* gauge.display() of the disconnect loop
DisconnectGauge == GaugeDisplay("dc_gauge", "dc_loop")

\* the checklist is shown only when some host is disconnected
ReconnectShowsCheckList(its) == its # <<>>

\* the checklist of the hosts that are disconnected; if not items: msgbox, return
ReconnectBegin ==
    /\ EnterCluster("reconnect_host")
    /\ LET its == ItemsInState(hosts, "disconnected")
       IN /\ items' = its
          /\ IF ReconnectShowsCheckList(its)
             THEN cpc' = "rc_checklist" /\ cshown' = {"infobox", "checklist"}
             ELSE cpc' = "done" /\ cshown' = {"infobox", "msgbox:none"}
    /\ UNCHANGED <<active, hosts, selected_hosts, ccode, cfields,
                   host_objects, idx, tasks, vncVars>>

\* checklist.display(); selected_hosts = checklist.selected()
\* if not selected_hosts: return
\* host_objects = [h for sh in selected_hosts for h in self.obj.host ...]
ReconnectSelect ==
    /\ cpc = "rc_checklist"
    /\ \E sel \in SubSeqs(Tags(items)) :
        /\ selected_hosts' = sel
        /\ IF sel = <<>>
           THEN cpc' = "done" /\ UNCHANGED <<host_objects, idx>>
           ELSE /\ host_objects' = HostObjects(sel, hosts)
                /\ idx' = 1
                /\ cpc' = "rc_loop"
    /\ UNCHANGED <<active, hosts, cop, items, ccode, cfields, tasks, cshown,
                   vncVars>>

\* for host_obj in host_objects: task = host_obj.Reconnect()
ReconnectLoop == BatchTurn("rc_loop", "rc_gauge", "Reconnect")

\* gauge.display() of the reconnect loop
ReconnectGauge == GaugeDisplay("rc_gauge", "rc_loop")

ConnectLabels == {"Hostname", "SSL Thumbprint", "Username", "Password"}

\* the connect form is abandoned on these codes
ConnectAborts(code) == code \in {"cancel", "esc"}

\* the connect form is rejected with these fields
ConnectInvalid(fields) == ~AllNonEmpty(fields)

\* code, fields = form.display(); cancel/esc returns; an empty field is
\* reported and returns; else task = self.obj.AddHost(...)
ConnectHost ==
    /\ EnterCluster("connect_host")
    /\ Len(hosts) < MaxHosts
    /\ \E code \in DialogCodes,
          hn \in {S("")} \cup HostNames,
          rest \in [ConnectLabels \ {"Hostname"} -> FieldValues] :
        LET fields == [l \in ConnectLabels |->
                          PyStr(IF l = "Hostname" THEN hn ELSE rest[l])]
        IN /\ ccode' = code
           /\ cfields' = fields
           /\ IF ConnectAborts(code)
              THEN /\ cpc' = "done"
                   /\ cshown' = {"form"}
                   /\ tasks' = <<>>
              ELSE IF ConnectInvalid(fields)
                   THEN /\ cpc' = "done"
                        /\ cshown' = {"form", "msgbox:invalid"}
                        /\ tasks' = <<>>
                   ELSE /\ cpc' = "ch_gauge"
                        /\ cshown' = {"form", "gauge"}
                        /\ tasks' = <<NewTask("AddHost", fields["Hostname"].s)>>
    /\ UNCHANGED <<active, hosts, items, selected_hosts, host_objects, idx,
                   vncVars>>

\* gauge.display() of connect_host
ConnectGauge == GaugeDisplay("ch_gauge", "done")

\* the handler returns to Menu.display(): its locals are gone
ClusterReturn ==
    /\ cpc = "done"
    /\ cpc' = "menu"
    /\ cop' = "none"
    /\ items' = <<>>
    /\ selected_hosts' = <<>>
    /\ ccode' = "none"
    /\ cfields' = <<>>
    /\ host_objects' = <<>>
    /\ idx' = 0
    /\ tasks' = <<>>
    /\ cshown' = {}
    /\ UNCHANGED <<active, hosts, vncVars>>

\* the positions where a handler waits on the user or on a task: the
\* remote side moves on meanwhile
HandlerWaits == {"dc_checklist", "dc_confirm", "dc_loop", "dc_gauge",
                 "rc_checklist", "rc_loop", "rc_gauge", "ch_gauge"}

\* the remote side changes under the controller: a host leaves the cluster
EnvHostRemoved ==
    /\ active = "ClusterHostWidget"
    /\ cpc \in HandlerWaits
    /\ \E i \in 1..Len(hosts) : hosts' = RemoveAt(hosts, i)
    /\ UNCHANGED <<active, cpc, cop, items, selected_hosts, ccode, cfields,
                   host_objects, idx, tasks, cshown, vncVars>>

\* the remote side changes under the controller: a host's connection state
EnvHostState ==
    /\ active = "ClusterHostWidget"
    /\ cpc \in HandlerWaits
    /\ \E i \in 1..Len(hosts), s \in ConnectionStates :
        /\ hosts[i].state # s
        /\ hosts' = [hosts EXCEPT ![i].state = s]
    /\ UNCHANGED <<active, cpc, cop, items, selected_hosts, ccode, cfields,
                   host_objects, idx, tasks, cshown, vncVars>>

ClusterNext ==
    \/ DisconnectBegin \/ DisconnectSelect \/ DisconnectConfirm
    \/ DisconnectLoop \/ DisconnectGauge
    \/ ReconnectBegin \/ ReconnectSelect \/ ReconnectLoop \/ ReconnectGauge
    \/ ConnectHost \/ ConnectGauge \/ ClusterReturn
    \/ EnvHostRemoved \/ EnvHostState

\* host lists of the cluster: distinct names, any connection states
InitHostLists ==
    UNION {[1..n -> ConnectionStates] : n \in 0..MaxHosts}

ClusterInit ==
    /\ \E st \in InitHostLists :
        hosts = [i \in 1..Len(st) |-> [name |-> HostName(i), state |-> st[i]]]
    /\ cpc = "menu"
    /\ cop = "none"
    /\ items = <<>>
    /\ selected_hosts = <<>>
    /\ ccode = "none"
    /\ cfields = <<>>
    /\ host_objects = <<>>
    /\ idx = 0
    /\ tasks = <<>>
    /\ cshown = {}

----------------------------------------------------------------------------
(* VncWidget: constants of the code *)

\* random_port = 5900 + random.randrange(1, 99)
PortBase == 5900
RandStart == 1
RandStop == 99
\* self._get_available_port(attempts=10)
Attempts == 10
\* "in the port range 5901-5999"
RangeFirst == 5901
RangeLast == 5999

\* random.randrange(start, stop): start <= r < stop
RandRange(start, stop) == start..(stop - 1)

VncRange == RangeFirst..RangeLast

KeyEnabled == "RemoteDisplay.vnc.enabled"
KeyPort == "RemoteDisplay.vnc.port"
KeyPassword == "RemoteDisplay.vnc.password"

OptionValue(key, value) == [key |-> key, value |-> value]

\* {o.key: o.value for o in self.obj.config.extraConfig}.get(key, default)
RECURSIVE DictGet(_, _, _)
DictGet(cfg, key, default) ==
    IF cfg = <<>> THEN default
    ELSE IF cfg[Len(cfg)].key = key THEN PyStr(cfg[Len(cfg)].value)
         ELSE DictGet(SubSeq(cfg, 1, Len(cfg) - 1), key, default)

HasKey(cfg, key) == \E i \in 1..Len(cfg) : cfg[i].key = key

\* the remote side merges a reconfiguration delta key by key
RECURSIVE MergeOptions(_, _)
MergeOptions(cfg, options) ==
    IF options = <<>> THEN cfg
    ELSE LET o == Head(options)
             merged == IF HasKey(cfg, o.key)
                       THEN [i \in 1..Len(cfg) |->
                                IF cfg[i].key = o.key THEN o ELSE cfg[i]]
                       ELSE Append(cfg, o)
         IN MergeOptions(merged, Tail(options))

\* slip: the comparison has lost its .lower()
IsEnabled_CaseSensitive(enabled) == Str(enabled) = S("true")
\* str(enabled).lower() == 'true'
IsEnabled(enabled) == Lower(Str(enabled)) = S("true")

\* self._port_is_opened(host, port): connect_ex() returned 0
PortIsOpened(port) == port \in openPorts

\* ''.join(random.choice(chars) for _ in range(8)): two of the draws
RandomPasswords == {S("k3Yp4sSw"), S("Zx81qLm0")}

\* the options _configure_vnc_options submits
VncOptions(enabled, port, password) ==
    <<OptionValue(KeyEnabled, Str(enabled)),
      OptionValue(KeyPort, Str(port)),
      OptionValue(KeyPassword, Str(password))>>

\* slip: disable_vnc resets the port and the password with the flag
DisableOptions_ClearsAll ==
    <<OptionValue(KeyEnabled, S("false")), OptionValue(KeyPort, S("")),
      OptionValue(KeyPassword, S(""))>>

\* the options disable_vnc submits
DisableOptions == <<OptionValue(KeyEnabled, S("false"))>>

\* task = self.obj.Reconfigure(spec=spec)
Reconfigure(options) == [spec |-> options, state |-> "running"]

LastResult(ts) == IF ts = <<>> THEN "none" ELSE ts[Len(ts)].state

\* a handler is entered from the widget's menu with its locals fresh
EnterVnc(op) ==
    /\ active = "VncWidget"
    /\ vpc = "menu"
    /\ vop' = op
    /\ prevOp' = prevOp
    /\ trail' = trail
    /\ cfgAtStart' = extraConfig

\* VncWidget.__init__: anything but a vim.VirtualMachine raises TypeError
\* before self.display()
VncWidgetInit ==
    /\ active = "VncWidget"
    /\ vpc = "init"
    /\ IF objType # "VirtualMachine"
       THEN vpc' = "crashed" /\ raised' = "TypeError"
       ELSE vpc' = "menu" /\ raised' = raised
    /\ UNCHANGED <<active, clusterVars, objType, powerState, extraConfig,
                   openPorts, vop, prevOp, trail, cfgAtStart, lport, lpassword,
                   lenabled, lpower, probes, portWasOpen, vcode, vfields,
                   vtasks, vshown, fileCreated, fileExists, procs,
                   leaked>>

\* the search is entered when no port is configured: `port if port else ...`
NeedsPortSearch(port) == ~Truthy(port)

\* enable_vnc up to the port search: already enabled -> notice and return;
\* a configured port -> straight to _configure_vnc_options
EnableVnc ==
    /\ EnterVnc("enable_vnc")
    /\ LET enabled == DictGet(extraConfig, KeyEnabled, PyNone)
           port == DictGet(extraConfig, KeyPort, PyNone)
           password == DictGet(extraConfig, KeyPassword, PyNone)
       IN /\ lenabled' = enabled
          /\ lpower' = "unread"
          /\ probes' = 0
          /\ IF IsEnabled(enabled)
             THEN /\ vshown' = {"infobox", "msgbox:already"}
                  /\ vpc' = "done"
                  /\ lport' = port
                  /\ lpassword' = password
                  /\ vtasks' = <<>>
             ELSE IF NeedsPortSearch(port)
                  THEN /\ vshown' = {"infobox", "infobox:search"}
                       /\ vpc' = "search"
                       /\ lport' = PyNone
                       /\ lpassword' = password
                       /\ vtasks' = <<>>
                  ELSE \E pw \in RandomPasswords :
                        LET pass == IF Truthy(password) THEN password
                                    ELSE PyStr(pw)
                        IN /\ vshown' = {"infobox", "gauge"}
                           /\ vpc' = "gauge"
                           /\ lport' = port
                           /\ lpassword' = pass
                           /\ vtasks' = <<Reconfigure(
                                  VncOptions(PyBool(TRUE), port, pass))>>
    /\ UNCHANGED <<active, clusterVars, objType, powerState, extraConfig,
                   openPorts, portWasOpen, vcode, vfields, fileCreated,
                   fileExists, procs, raised,
                   leaked>>

\* slip: range(attempts + 1)
MoreAttempts_OffByOne(i) == i <= Attempts
\* for i in range(attempts): the loop goes on while probes remain
MoreAttempts(i) == i < Attempts

\* one turn of the loop of _get_available_port, and what enable_vnc does
\* with its result: None -> 'No available ports', a port -> Reconfigure
PortSearch ==
    /\ vpc = "search"
    /\ IF MoreAttempts(probes)
       THEN \E r \in RandRange(RandStart, RandStop), pw \in RandomPasswords :
              LET random_port == PortBase + r
                  pass == IF Truthy(lpassword) THEN lpassword ELSE PyStr(pw)
              IN /\ probes' = probes + 1
                 /\ IF ~PortIsOpened(random_port)
                    THEN /\ lport' = PyInt(random_port)
                         /\ lpassword' = pass
                         /\ vshown' = vshown \cup {"gauge"}
                         /\ vpc' = "gauge"
                         /\ vtasks' = <<Reconfigure(VncOptions(
                                PyBool(TRUE), PyInt(random_port), pass))>>
                    ELSE UNCHANGED <<lport, lpassword, vshown, vpc, vtasks>>
       ELSE /\ vshown' = vshown \cup {"msgbox:noports"}
            /\ vpc' = "done"
            /\ UNCHANGED <<probes, lport, lpassword, vtasks>>
    /\ UNCHANGED <<active, clusterVars, objType, powerState, extraConfig,
                   openPorts, vop, prevOp, trail, cfgAtStart, lenabled, lpower,
                   portWasOpen, vcode, vfields, fileCreated, fileExists,
                   procs, raised,
                   leaked>>

\* TaskGauge.display() on a Reconfigure task: the task ends, the remote side
\* has merged the options if it succeeded, a failure is reported
VncGauge ==
    /\ vpc = "gauge"
    /\ \E result \in TerminalStates :
        /\ vtasks' = [vtasks EXCEPT ![Len(vtasks)].state = result]
        /\ extraConfig' = IF result = "success"
                          THEN MergeOptions(extraConfig, vtasks[Len(vtasks)].spec)
                          ELSE extraConfig
        /\ vshown' = IF result = "error" THEN vshown \cup {"msgbox:task"}
                     ELSE vshown
    /\ vpc' = "done"
    /\ UNCHANGED <<active, clusterVars, objType, powerState, openPorts, vop,
                   prevOp, trail, cfgAtStart, lport, lpassword, lenabled, lpower,
                   probes, portWasOpen, vcode, vfields, fileCreated,
                   fileExists, procs, raised,
                   leaked>>

\* disable_vnc: Reconfigure with the enabled key alone
DisableVnc ==
    /\ EnterVnc("disable_vnc")
    /\ vtasks' = <<Reconfigure(DisableOptions)>>
    /\ vshown' = {"gauge"}
    /\ vpc' = "gauge"
    /\ probes' = 0
    /\ UNCHANGED <<active, clusterVars, objType, powerState, extraConfig,
                   openPorts, lport, lpassword, lenabled, lpower, portWasOpen,
                   vcode, vfields, fileCreated, fileExists, procs, raised,
                   leaked>>

SettingsLabels == {"Enabled", "Port", "Password"}

\* what the user can leave in the fields of the settings form: the values
\* shown (the current ones) or typed ones
EnabledInputs == {S(""), S("true"), S("false")}
PortInputs == {S(""), S("abc"), IntToStr(RangeFirst)}
PasswordInputs == {S(""), S("pw")}

\* slip: `not any(...)` in place of `not all(...)`
SettingsInvalid_NotAny(fields) == \A k \in DOMAIN fields : ~Truthy(fields[k])
\* the settings form is rejected with these fields
SettingsInvalid(fields) == ~AllNonEmpty(fields)

\* the settings form is applied on this code
SettingsApplies(code) == code = "ok"

\* settings: code, fields = form.display(); an empty field is reported and
\* returns; on OK the fields are handed to _configure_vnc_options
Settings ==
    /\ EnterVnc("settings")
    /\ LET enabled == DictGet(extraConfig, KeyEnabled, PyStr(S("false")))
           port == DictGet(extraConfig, KeyPort, PyStr(S("")))
           password == DictGet(extraConfig, KeyPassword, PyStr(S("")))
       IN \E code \in DialogCodes,
             e \in EnabledInputs \cup {enabled.s},
             p \in PortInputs \cup {port.s},
             w \in PasswordInputs \cup {password.s} :
            LET fields == [l \in SettingsLabels |->
                              CASE l = "Enabled" -> PyStr(e)
                                [] l = "Port" -> PyStr(p)
                                [] l = "Password" -> PyStr(w)]
            IN /\ vcode' = code
               /\ vfields' = fields
               /\ IF SettingsInvalid(fields)
                  THEN /\ vshown' = {"form", "msgbox:invalid"}
                       /\ vpc' = "done"
                       /\ vtasks' = <<>>
                  ELSE IF SettingsApplies(code)
                       THEN /\ vshown' = {"form", "gauge"}
                            /\ vpc' = "gauge"
                            /\ vtasks' = <<Reconfigure(VncOptions(
                                   fields["Enabled"], fields["Port"],
                                   fields["Password"]))>>
                       ELSE /\ vshown' = {"form"}
                            /\ vpc' = "done"
                            /\ vtasks' = <<>>
    /\ probes' = 0
    /\ UNCHANGED <<active, clusterVars, objType, powerState, extraConfig,
                   openPorts, lport, lpassword, lenabled, lpower, portWasOpen,
                   fileCreated, fileExists, procs, raised,
                   leaked>>

\* slip: the power-state guard is gone
PowerAllows_Always(power) == TRUE
\* the three guards of launch_console, in the order the code tests them
PowerAllows(power) == power = "poweredOn"
EnabledAllows(enabled) == IsEnabled(enabled)
ProbeAllows(port) == PortIsOpened(port)

\* launch_console up to the try block: power state, enabled flag, then
\* int(port) and the probe of the port on the VM's host
LaunchConsole ==
    /\ EnterVnc("launch_console")
    /\ LET enabled == DictGet(extraConfig, KeyEnabled, PyNone)
           port == DictGet(extraConfig, KeyPort, PyNone)
           password == DictGet(extraConfig, KeyPassword, PyNone)
       IN /\ lpower' = powerState
          /\ IF ~PowerAllows(powerState)
             THEN /\ vshown' = {"msgbox:poweron"}
                  /\ vpc' = "done"
                  /\ UNCHANGED <<lenabled, lport, lpassword, probes, raised>>
                  /\ portWasOpen' = "none"
             ELSE /\ lenabled' = enabled
                  /\ lport' = port
                  /\ lpassword' = password
                  /\ IF ~EnabledAllows(enabled)
                     THEN /\ vshown' = {"msgbox:disabled"}
                          /\ vpc' = "done"
                          /\ probes' = 0
                          /\ raised' = raised
                          /\ portWasOpen' = "none"
                     ELSE IF IntStatus(port) # "ok"
                          THEN /\ vshown' = {}
                               /\ vpc' = "crashed"
                               /\ probes' = 0
                               /\ raised' = IntStatus(port)
                               /\ portWasOpen' = "none"
                          ELSE /\ probes' = 1
                               /\ raised' = raised
                               /\ IF ~ProbeAllows(IntValue(port))
                                  THEN /\ vshown' = {"msgbox:unreachable"}
                                       /\ vpc' = "done"
                                       /\ portWasOpen' = "closed"
                                  ELSE /\ vshown' = {}
                                       /\ vpc' = "lc_passwd"
                                       /\ portWasOpen' = "open"
    /\ vtasks' = <<>>
    /\ procs' = <<>>
    /\ UNCHANGED <<active, clusterVars, objType, powerState, extraConfig,
                   openPorts, vcode, vfields, fileCreated, fileExists,
                   leaked>>

\* what the handler of `except OSError` leaves of the temporary file
FileAfterPasswdError(exists) == exists

\* the first try block: mkstemp, the vncpasswd subprocess, the write of its
\* output. Each of the three can raise OSError, which is reported and returns.
LaunchPasswdFile ==
    /\ vpc = "lc_passwd"
    /\ \E failure \in {"none", "mkstemp", "Popen", "write"} :
        /\ fileCreated' = (failure # "mkstemp")
        /\ procs' = IF failure \in {"none", "write"}
                    THEN Append(procs, "vncpasswd") ELSE procs
        /\ IF failure = "none"
           THEN /\ fileExists' = TRUE
                /\ vshown' = vshown \cup {"infobox:launching"}
                /\ vpc' = "lc_viewer"
           ELSE /\ fileExists' = FileAfterPasswdError(failure # "mkstemp")
                /\ vshown' = vshown \cup {"msgbox:vncpasswd"}
                /\ vpc' = "done"
    /\ UNCHANGED <<active, clusterVars, objType, powerState, extraConfig,
                   openPorts, vop, prevOp, trail, cfgAtStart, lport, lpassword,
                   lenabled, lpower, probes, portWasOpen, vcode, vfields,
                   vtasks, raised,
                   leaked>>

\* what os.unlink(vncpasswd_file) leaves of the temporary file
FileAfterUnlink(exists) == FALSE

\* the second try block: the vncviewer subprocess, whose OSError is reported;
\* then time.sleep(3) and os.unlink(vncpasswd_file) either way
LaunchViewer ==
    /\ vpc = "lc_viewer"
    /\ \E spawned \in BOOLEAN :
        /\ procs' = IF spawned THEN Append(procs, "vncviewer") ELSE procs
        /\ vshown' = IF spawned THEN vshown
                     ELSE vshown \cup {"msgbox:vncviewer"}
    /\ fileExists' = FileAfterUnlink(fileExists)
    /\ vpc' = "done"
    /\ UNCHANGED <<active, clusterVars, objType, powerState, extraConfig,
                   openPorts, vop, prevOp, trail, cfgAtStart, lport, lpassword,
                   lenabled, lpower, probes, portWasOpen, vcode, vfields,
                   vtasks, fileCreated, raised,
                   leaked>>

\* the summary of an enable_vnc and of the disable_vnc that follows it
\* (merged: no Reconfigure task of the two has failed)
NoTrail == [phase |-> "none", cfg |-> <<>>, merged |-> TRUE]
NextTrail(tr, op, cfg, result) ==
    CASE op = "enable_vnc" ->
            [phase |-> "enabled", cfg |-> cfg, merged |-> result # "error"]
      [] op = "disable_vnc" /\ tr.phase = "enabled" ->
            [phase |-> "disabled", cfg |-> tr.cfg,
             merged |-> tr.merged /\ result # "error"]
      [] OTHER -> NoTrail

\* the handler returns to Menu.display(): its locals are gone, and the
\* model keeps a summary of it for the next handler
VncReturn ==
    /\ vpc = "done"
    /\ vpc' = "menu"
    /\ vop' = "none"
    /\ prevOp' = [name |-> vop, reconfigs |-> Len(vtasks),
                  result |-> LastResult(vtasks)]
    /\ trail' = NextTrail(trail, vop, extraConfig, LastResult(vtasks))
    /\ cfgAtStart' = <<>>
    /\ lport' = PyNone
    /\ lpassword' = PyNone
    /\ lenabled' = PyNone
    /\ lpower' = "unread"
    /\ probes' = 0
    /\ portWasOpen' = "none"
    /\ vcode' = "none"
    /\ vfields' = <<>>
    /\ vtasks' = <<>>
    /\ vshown' = {}
    /\ fileCreated' = FALSE
    /\ fileExists' = FALSE
    /\ leaked' = (leaked \/ fileExists)
    /\ procs' = <<>>
    /\ UNCHANGED <<active, clusterVars, objType, powerState, extraConfig,
                   openPorts, raised>>

\* the VM is powered on or off while the menu waits for the user
EnvPower ==
    /\ active = "VncWidget"
    /\ vpc = "menu"
    /\ \E s \in {"poweredOn", "poweredOff"} :
        /\ s # powerState
        /\ powerState' = s
    /\ UNCHANGED <<active, clusterVars, objType, extraConfig, openPorts, vpc,
                   vop, prevOp, trail, cfgAtStart, lport, lpassword, lenabled,
                   lpower, probes, portWasOpen, vcode, vfields, vtasks,
                   vshown, fileCreated, fileExists, procs, raised,
                   leaked>>

VncNext ==
    \/ VncWidgetInit
    \/ EnableVnc \/ PortSearch \/ VncGauge \/ DisableVnc \/ Settings
    \/ LaunchConsole \/ LaunchPasswdFile \/ LaunchViewer
    \/ VncReturn \/ EnvPower

\* hosts on which the console ports are: all taken, all taken but one inside
\* the range, all taken but the last of the range, all taken but two
PortProfiles ==
    {VncRange, VncRange \ {RangeFirst + 49}, VncRange \ {RangeLast},
     VncRange \ {RangeFirst, RangeLast - 1}}

VncInit ==
    /\ objType \in {"VirtualMachine", "HostSystem"}
    /\ powerState \in {"poweredOn", "poweredOff"}
    /\ extraConfig = <<>>
    /\ openPorts \in PortProfiles
    /\ vpc = "init"
    /\ vop = "none"
    /\ prevOp = [name |-> "none", reconfigs |-> 0, result |-> "none"]
    /\ trail = NoTrail
    /\ cfgAtStart = <<>>
    /\ lport = PyNone
    /\ lpassword = PyNone
    /\ lenabled = PyNone
    /\ lpower = "unread"
    /\ probes = 0
    /\ portWasOpen = "none"
    /\ vcode = "none"
    /\ vfields = <<>>
    /\ vtasks = <<>>
    /\ vshown = {}
    /\ fileCreated = FALSE
    /\ fileExists = FALSE
    /\ leaked = FALSE
    /\ procs = <<>>
    /\ raised = "none"

----------------------------------------------------------------------------
(* The console: the user opens one of the two widgets *)

Init ==
    /\ active \in {"ClusterHostWidget", "VncWidget"}
    /\ ClusterInit
    /\ VncInit
    /\ active = "ClusterHostWidget" =>
          /\ objType = "VirtualMachine"
          /\ powerState = "poweredOn"
          /\ openPorts = VncRange
    /\ active = "VncWidget" => hosts = <<>>

Next == ClusterNext \/ VncNext

Spec == Init /\ [][Next]_vars

----------------------------------------------------------------------------
(* Properties *)

TargetsOf(ts) == [i \in 1..Len(ts) |-> ts[i].target]
BatchOp == IF cop = "disconnect_host" THEN "Disconnect" ELSE "Reconnect"

\* C1: when a batch disconnect or reconnect has run to its end on a confirmed,
\* non-empty selection, the remote calls it issued are exactly the selected
\* tags: as many calls as tags, one per selected host, in selection order.
C1_CallsMatchSelection ==
    (/\ cop \in {"disconnect_host", "reconnect_host"}
     /\ cpc = "done"
     /\ selected_hosts # <<>>
     /\ cop = "disconnect_host" => ccode = "ok")
    => /\ TargetsOf(tasks) = selected_hosts
       /\ \A i \in 1..Len(tasks) : tasks[i].op = BatchOp

\* C2: when launch_console has created the temporary password file and has
\* returned, the file is no longer on disk.
C2_PasswordFileRemoved ==
    (vop = "launch_console" /\ vpc = "done" /\ fileCreated) => ~fileExists

EnabledNow == DictGet(extraConfig, KeyEnabled, PyNone)
PortNow == DictGet(extraConfig, KeyPort, PyNone)
ConsoleBlocked ==
    \/ powerState # "poweredOn"
    \/ Lower(Str(EnabledNow)) # <<"t", "r", "u", "e">>
    \/ IntStatus(PortNow) # "ok"
    \/ IntValue(PortNow) \notin openPorts

\* C3: while launch_console runs or has just returned, if the VM is not
\* powered on, or the enabled flag is not 'true' in any letter case, or the
\* configured port does not accept connections, then no password file was
\* created and no subprocess (vncpasswd, vncviewer) was started.
C3_NoSpawnWhenBlocked ==
    (vop = "launch_console" /\ ConsoleBlocked)
    => /\ procs = <<>>
       /\ ~fileCreated
       /\ ~fileExists

\* the VM is powered off with the console enabled on a reachable port, and
\* launch_console has returned after its power-state message
C3_Witness ==
    /\ vop = "launch_console"
    /\ vpc = "done"
    /\ powerState = "poweredOff"
    /\ Lower(Str(EnabledNow)) = <<"t", "r", "u", "e">>
    /\ IntStatus(PortNow) = "ok"
    /\ IntValue(PortNow) \in openPorts
    /\ "msgbox:poweron" \in vshown

\* C4: a handler whose prompt was answered CANCEL or ESC has submitted no
\* remote operation, whatever the fields or the selection; a handler that
\* prompts has submitted an operation only after an OK answer.
C4_CancelSubmitsNothing ==
    /\ (cop \in {"connect_host", "disconnect_host"}
        /\ ccode \in {"cancel", "esc"}) => tasks = <<>>
    /\ (vop = "settings" /\ vcode \in {"cancel", "esc"}) => vtasks = <<>>
    /\ (cop \in {"connect_host", "disconnect_host"} /\ tasks # <<>>)
          => ccode = "ok"
    /\ (vop = "settings" /\ vtasks # <<>>) => vcode = "ok"

\* the yes/no confirmation of a non-empty disconnect selection was answered
\* CANCEL and the handler has returned
C4_Witness ==
    /\ cop = "disconnect_host"
    /\ cpc = "done"
    /\ selected_hosts # <<>>
    /\ ccode = "cancel"
    /\ \E i \in 1..Len(hosts) : hosts[i].name = selected_hosts[1]

SomeFieldEmpty(fields) == \E l \in DOMAIN fields : fields[l].s = <<>>

\* C5: a connect form or settings form accepted with an empty field ends in
\* an error message box with no remote call issued; a remote call of these
\* handlers was issued only with every field non-empty.
C5_EmptyFieldSubmitsNothing ==
    /\ (cop = "connect_host" /\ ccode = "ok" /\ SomeFieldEmpty(cfields))
          => /\ tasks = <<>>
             /\ cpc = "done"
             /\ "msgbox:invalid" \in cshown
    /\ (vop = "settings" /\ vcode = "ok" /\ SomeFieldEmpty(vfields))
          => /\ vtasks = <<>>
             /\ vpc = "done"
             /\ "msgbox:invalid" \in vshown
    /\ (cop = "connect_host" /\ tasks # <<>>) => ~SomeFieldEmpty(cfields)
    /\ (vop = "settings" /\ vtasks # <<>>) => ~SomeFieldEmpty(vfields)

\* the settings form was accepted with the port empty and the other fields
\* filled in
C5_Witness ==
    /\ vop = "settings"
    /\ vpc = "done"
    /\ vcode = "ok"
    /\ vfields["Port"].s = <<>>
    /\ vfields["Enabled"].s # <<>>
    /\ vfields["Password"].s # <<>>

NamesInState(hs, state) == {hs[i].name : i \in {j \in 1..Len(hs) : hs[j].state = state}}

ExactlyInState(its, hs, state) ==
    /\ Range(Tags(its)) = NamesInState(hs, state)
    /\ Len(its) = Cardinality(NamesInState(hs, state))
    /\ \A i \in 1..Len(its) : its[i].description = state

\* C6: the checklist disconnect_host builds holds exactly the hosts that are
\* connected in the host list it read, the one reconnect_host builds exactly
\* the disconnected ones; no item of either is in another state; and with no
\* disconnected host reconnect_host shows no checklist and calls nothing.
C6_ChecklistsByState ==
    /\ [][/\ DisconnectBegin => ExactlyInState(items', hosts, "connected")
          /\ ReconnectBegin => ExactlyInState(items', hosts, "disconnected")]_vars
    /\ [](/\ cop = "disconnect_host" =>
                \A i \in 1..Len(items) : items[i].description = "connected"
          /\ cop = "reconnect_host" =>
                \A i \in 1..Len(items) : items[i].description = "disconnected"
          /\ (cop = "reconnect_host" /\ items = <<>>) =>
                /\ "checklist" \notin cshown
                /\ tasks = <<>>
                /\ cpc = "done")

\* the disconnect checklist is on screen and leaves out a host that is not
\* connected
C6_Witness ==
    /\ cop = "disconnect_host"
    /\ cpc = "dc_checklist"
    /\ items # <<>>
    /\ Len(items) < Len(hosts)
    /\ \E i \in 1..Len(hosts) : hosts[i].state = "notResponding"

EnabledAtStart == Lower(Str(DictGet(cfgAtStart, KeyEnabled, PyNone)))

\* enable_vnc on a console that is already enabled: no Reconfigure, no port
\* search, the notice, and the extra-config left as it was
C7_IdempotentWhenEnabled ==
    (vop = "enable_vnc" /\ EnabledAtStart = <<"t", "r", "u", "e">>)
    => /\ vtasks = <<>>
       /\ probes = 0
       /\ "infobox:search" \notin vshown
       /\ "msgbox:already" \in vshown
       /\ extraConfig = cfgAtStart
       /\ vpc = "done"

C8_SearchGivesUpAfterTen ==
    /\ vop = "enable_vnc" => probes <= 10
    /\ (vop = "enable_vnc" /\ vpc = "done" /\ "infobox:search" \in vshown
        /\ \A p \in 5901..5999 : p \in openPorts)
          => /\ probes = 10
             /\ lport = PyNone
             /\ "msgbox:noports" \in vshown
             /\ vtasks = <<>>
             /\ extraConfig = cfgAtStart

\* the search ran against a host with every port of the range taken and
\* enable_vnc has returned
C8_Witness ==
    /\ vop = "enable_vnc"
    /\ vpc = "done"
    /\ "infobox:search" \in vshown
    /\ \A p \in 5901..5999 : p \in openPorts
    /\ probes = 10
    /\ "msgbox:noports" \in vshown

\* C9: no error escapes a handler of the VNC widget; the only uncaught error
\* is the TypeError of constructing the widget on an object that is not a
\* virtual machine, raised before any handler ran.
C9_NoUncaughtError ==
    raised # "none" =>
        /\ raised = "TypeError"
        /\ objType # "VirtualMachine"
        /\ vop = "none"

\* C10: a batch runs one remote operation at a time: at most one submitted
\* operation is unresolved, every operation but the last submitted is in a
\* terminal state, and the loop is back for its next host only once the
\* gauge has returned with the operation resolved.
C10_OneOperationAtATime ==
    /\ Cardinality(Unresolved(tasks)) <= 1
    /\ \A i \in 1..(Len(tasks) - 1) : tasks[i].state \in {"success", "error"}
    /\ cpc \in {"dc_loop", "rc_loop", "done"} => Unresolved(tasks) = {}
    /\ cpc \in {"dc_gauge", "rc_gauge"} => Unresolved(tasks) = {Len(tasks)}

\* the second host's Disconnect is in flight and the first host's has ended
C10_Witness ==
    /\ cop = "disconnect_host"
    /\ cpc = "dc_gauge"
    /\ Len(tasks) = 2
    /\ tasks[1].state \in {"success", "error"}
    /\ tasks[2].state = "running"
    /\ tasks[1].target # tasks[2].target

\* C11: the ports _get_available_port can return are exactly 5901..5999: a
\* port the search returned lies in the range and did not accept connections
\* when probed, and while the search still has a probe left every port of
\* the range that is free on the host (5999 included) can be the candidate
\* drawn and returned.
C11_ReturnsExactlyTheRange ==
    /\ (vop = "enable_vnc" /\ lport.t = "int")
          => /\ lport.n \in 5901..5999
             /\ lport.n \notin openPorts
    /\ \A p \in 5901..5999 :
          (vpc = "search" /\ probes < 10 /\ p \notin openPorts)
          => ENABLED (PortSearch /\ lport' = PyInt(p))

PortOf(cfg) == DictGet(cfg, KeyPort, PyNone)
PasswordOf(cfg) == DictGet(cfg, KeyPassword, PyNone)
IsSet(x) == x.t = "str" /\ x.s # <<>>
SpecKeys(task) == {task.spec[i].key : i \in 1..Len(task.spec)}

\* whenever the console is enabled, a port and a password are configured
C12_EnabledHasPortAndPassword ==
    Lower(Str(EnabledNow)) = <<"t", "r", "u", "e">>
    => /\ IsSet(PortOf(extraConfig))
       /\ IsSet(PasswordOf(extraConfig))

\* disable_vnc submits the enabled key alone and leaves port and password
C12_DisableTouchesEnabledOnly ==
    vop = "disable_vnc"
    => /\ \A i \in 1..Len(vtasks) : SpecKeys(vtasks[i]) = {KeyEnabled}
       /\ PortOf(extraConfig) = PortOf(cfgAtStart)
       /\ PasswordOf(extraConfig) = PasswordOf(cfgAtStart)

SameAsAfterFirstEnable ==
    /\ PortOf(extraConfig) = PortOf(trail.cfg)
    /\ PasswordOf(extraConfig) = PasswordOf(trail.cfg)

\* C12 as stated: from a VM with no RemoteDisplay.vnc.* key, an enabled
\* console always has a port and a password; disable_vnc changes the enabled
\* key only; and enable_vnc, disable_vnc, enable_vnc in a row, every
\* Reconfigure they submitted merged by the remote side, end with the port
\* and password that were there after the first enable_vnc.
C12_RoundTripAlways ==
    /\ C12_EnabledHasPortAndPassword
    /\ C12_DisableTouchesEnabledOnly
    /\ (vop = "enable_vnc" /\ vpc = "done" /\ trail.phase = "disabled"
        /\ trail.merged /\ LastResult(vtasks) # "error")
          => SameAsAfterFirstEnable

\* C12 as amended: the same, the round trip holding when the first
\* enable_vnc left a port and a password configured; an enable_vnc that
\* configured nothing (no free port found, or a failed Reconfigure task) may
\* be followed by one that does.
C12_RoundTripWhenConfigured ==
    /\ C12_EnabledHasPortAndPassword
    /\ C12_DisableTouchesEnabledOnly
    /\ (vop = "enable_vnc" /\ trail.phase = "disabled"
        /\ IsSet(PortOf(trail.cfg)) /\ IsSet(PasswordOf(trail.cfg)))
          => SameAsAfterFirstEnable

\* the first enable_vnc searched a port and enabled the console, disable_vnc
\* disabled it, and the second enable_vnc has enabled it again
C12_Witness ==
    /\ vop = "enable_vnc"
    /\ vpc = "done"
    /\ trail.phase = "disabled"
    /\ DictGet(trail.cfg, KeyEnabled, PyNone) = PyStr(<<"T", "r", "u", "e">>)
    /\ PortOf(trail.cfg) = PyStr(<<"5", "9", "5", "0">>)
    /\ DictGet(cfgAtStart, KeyEnabled, PyNone) = PyStr(<<"f", "a", "l", "s", "e">>)
    /\ EnabledNow = PyStr(<<"T", "r", "u", "e">>)
    /\ Len(vtasks) = 1
    /\ vtasks[1].state = "success"
    /\ SameAsAfterFirstEnable

====
